---- MODULE Spec2Model ----
(***************************************************************************)
(* Translation of Qiskit experiments to cQASM by the Quantum Inspire       *)
(* backend: QuantumInspireBackend._generate_cqasm (backend_qx.py) driving  *)
(* the gate functions of CircuitToString (circuit_parser.py).              *)
(*                                                                         *)
(* Text is modelled as a sequence of statements, one per '\n'-terminated   *)
(* line; a statement is a record of its mnemonic and operands.  Hex        *)
(* strings ('0xF') are sequences of hex digits, most significant first.    *)
(* Angles are integers in units of 10^-7 rad; formatted angles are         *)
(* integers in units of 10^-6 (the six printed decimals).                  *)
(***************************************************************************)
EXTENDS Integers, Sequences, FiniteSets, TLC

(* ---- bounds of the model ---- *)
MaxInstr == 2       \* instructions of one experiment
MaxBfunc == 1       \* mask declarations (bfunc) of one experiment
MaxMask == 5        \* masks and values of bfunc instructions are 0..MaxMask
MaxReg == 2         \* condition register indices 1..MaxReg
MaxTestMask == 511  \* masks handed to get_mask_data directly are 0..MaxTestMask
MaxRotations == 1   \* gates with angles in one experiment
MaxCalls == 2       \* translations that one backend is followed through
MaxStates == 2      \* entries of the histogram of a result
MaxShots == 2       \* samples of the raw data of a result
One == 4            \* the probability 1, in the unit that probabilities are counted in
MaxExperiments == 2 \* experiments of one job
MaxJobs == 2        \* jobs of one project

VARIABLES
    pc,            \* "idle", "loop", "done", "failed", "mask_done"
    call_fsp,      \* second positional argument of the call: "absent", "true", "false"
    n_qubits,      \* experiment.header.n_qubits
    instructions,  \* experiment.instructions consumed by the loop so far
    parser,        \* the CircuitToString instance of the call
    stream,        \* the io.StringIO buffer
    mark,          \* length of the buffer when the current iteration began
    line,          \* value returned by the gate function of the last iteration
    error,         \* exception that left the call
    result,        \* value returned by the call
    mask_arg,      \* argument of a direct get_mask_data call
    mask_res,      \* its result
    calls,         \* the _generate_cqasm calls this backend has finished, oldest first
    conv,          \* the result conversion that was called, with its arguments and results
    qobj,          \* the job that run was called with
    api,           \* what the calls of the backend have left at the Quantum Inspire API
    job,           \* the job that run returned
    fetched        \* the call of get_experiment_results: the jobs found and what it returned

vars == <<pc, call_fsp, n_qubits, instructions, parser, stream, mark, line,
          error, result, mask_arg, mask_res, calls, conv, qobj, api, job, fetched>>

(* ---- integers as bit strings ---- *)
RECURSIVE Pow2(_)
Pow2(n) == IF n = 0 THEN 1 ELSE 2 * Pow2(n - 1)

Bit(v, i) == (v \div Pow2(i)) % 2

\* int(s, 16)
RECURSIVE HexToInt(_)
HexToInt(digits) ==
    IF digits = <<>> THEN 0
    ELSE 16 * HexToInt(SubSeq(digits, 1, Len(digits) - 1)) + digits[Len(digits)]

(* ---- CircuitToString.get_mask_data ---- *)
\* first loop: position of the lowest set bit
RECURSIVE LowestMaskBit(_, _)
LowestMaskBit(mask, bit_nr) ==
    IF Bit(mask, bit_nr) = 1 THEN bit_nr ELSE LowestMaskBit(mask, bit_nr + 1)

\* second loop: one past the position of the highest set bit
RECURSIVE BitLength(_)
BitLength(mask) == IF mask = 0 THEN 0 ELSE 1 + BitLength(mask \div 2)

\* A decoder that stops counting at the first unset bit above the lowest.
RECURSIVE RunLength(_, _)
RunLength(mask, bit_nr) ==
    IF Bit(mask, bit_nr) = 1 THEN 1 + RunLength(mask, bit_nr + 1) ELSE 0

get_mask_data_run(mask) ==
    IF mask = 0 THEN <<-1, 0>>
    ELSE <<LowestMaskBit(mask, 0), RunLength(mask, LowestMaskBit(mask, 0))>>

get_mask_data(mask) ==
    IF mask = 0 THEN <<-1, 0>>
    ELSE <<LowestMaskBit(mask, 0), BitLength(mask) - LowestMaskBit(mask, 0)>>

(* ---- statements of the cQASM text ---- *)
Stmt(op, cond, cbits, qubits, args) ==
    [op |-> op, cond |-> cond, cbits |-> cbits, qubits |-> qubits, args |-> args]

\* '<op> q[a], q[b][, <angle>]' and, with cond, 'C-<op> b[..], q[a], ...'
GateStmt(op, cond, cbits, qubits, args) == Stmt(op, cond, cbits, qubits, args)

\* 'not b[i,j,...]'
NotStmt(bits) == Stmt("not", FALSE, bits, <<>>, <<>>)

\* 'measure q[i]'
MeasureStmt(q) == Stmt("measure", FALSE, <<>>, <<q>>, <<>>)

VersionStmt == Stmt("version 1.0", FALSE, <<>>, <<>>, <<>>)
CommentStmt == Stmt("# cQASM generated by QI backend for Qiskit", FALSE, <<>>, <<>>, <<>>)
QubitsStmt(n) == Stmt("qubits", FALSE, <<>>, <<>>, <<n>>)

IsNot(s) == s.op = "not"
IsGate(s) == s.op \notin {"not", "measure", "qubits", VersionStmt.op, CommentStmt.op}

(* ---- instructions (instruction.as_dict()) ---- *)
NoConditional == -1     \* the dict has no 'conditional' key

Instr(name, qubits, params, conditional) ==
    [name |-> name, qubits |-> qubits, params |-> params, conditional |-> conditional,
     memory |-> <<>>, mask |-> <<>>, register |-> NoConditional, relation |-> "", val |-> <<>>]

Bfunc(mask, register, relation, val) ==
    [name |-> "bfunc", qubits |-> <<>>, params |-> <<>>, conditional |-> NoConditional,
     memory |-> <<>>, mask |-> mask, register |-> register, relation |-> relation, val |-> val]

Measure(qubit, clbit) ==
    [name |-> "measure", qubits |-> <<qubit>>, params |-> <<>>, conditional |-> NoConditional,
     memory |-> <<clbit>>, mask |-> <<>>, register |-> NoConditional, relation |-> "", val |-> <<>>]

\* str.lower() on the gate names that occur
Lower(name) == IF name = "H" THEN "h" ELSE IF name = "RX" THEN "rx" ELSE name

(* ---- exceptions ---- *)
NoError == [type |-> "none", msg |-> <<>>, num |-> -1]
ApiError(msg) == [type |-> "ApiError", msg |-> msg, num |-> -1]
ApiErrorNum(msg, num) == [type |-> "ApiError", msg |-> msg, num |-> num]
AttributeError(attr) == [type |-> "AttributeError", msg |-> <<"_", attr>>, num |-> -1]
TypeError == [type |-> "TypeError", msg |-> <<"_generate_cqasm() takes 2 positional arguments but 3 were given">>, num |-> -1]

GateNotSupported(name) == ApiError(<<"Gate ", name, " not supported">>)
ConditionalGateNotSupported(name) == ApiError(<<"Conditional gate ", "c-", name, " not supported">>)
ConditionalNotFound(reg_idx) == ApiErrorNum(<<"Conditional not found: reg_idx = ">>, reg_idx)
RelationNotSupported(relation) ==
    ApiError(<<"Conditional statement with relation ", relation, " not supported">>)
WithoutMask(name) == ApiError(<<"Conditional statement ", name, " without a mask">>)

(* ---- CircuitToString: the gate table ---- *)
Mnemonic ==
    [id |-> "I", x |-> "X", y |-> "Y", z |-> "Z", h |-> "H", s |-> "S", sdg |-> "Sdag",
     t |-> "T", tdg |-> "Tdag", swap |-> "SWAP", cx |-> "CNOT", cz |-> "CZ",
     ccx |-> "Toffoli", rx |-> "Rx", ry |-> "Ry", rz |-> "Rz"]

FixedGates == {"id", "x", "y", "z", "h", "s", "sdg", "t", "tdg", "swap", "cx", "cz", "ccx"}
RotationGates == {"rx", "ry", "rz"}
GenericGates == {"u", "u1", "u2", "u3"}
KnownGates == FixedGates \cup RotationGates \cup GenericGates

\* the names the parser has a gate function for
ParserAttributes == KnownGates \cup {"bfunc", "barrier", "measure"}

\* np.pi / 2 in units of 10^-7
PiHalf == 15707963

\* '%f' % angle: six decimals, rounded to nearest
Format6(angle) ==
    IF angle >= 0 THEN (angle + 5) \div 10 ELSE -((5 - angle) \div 10)

\* one rotation of a decomposition; dropped when it prints as zero
Rotation(op, cond, cbits, q, angle) ==
    IF Format6(angle) = 0 THEN <<>>
    ELSE <<GateStmt(op, cond, cbits, <<q>>, <<Format6(angle)>>)>>

\* u3(theta, phi, lambda) = Rz(lambda) Ry(theta) Rz(phi)
Euler(cond, cbits, q, theta, phi, lam) ==
    Rotation("Rz", cond, cbits, q, lam) \o Rotation("Ry", cond, cbits, q, theta)
        \o Rotation("Rz", cond, cbits, q, phi)

\* the statements of one known gate
GateText(name, instruction, cond, cbits) ==
    IF name \in FixedGates
    THEN <<GateStmt(Mnemonic[name], cond, cbits, instruction.qubits, <<>>)>>
    ELSE IF name \in RotationGates
    THEN <<GateStmt(Mnemonic[name], cond, cbits, <<instruction.qubits[1]>>,
                    <<Format6(instruction.params[1])>>)>>
    ELSE IF name \in {"u", "u3"}
    THEN Euler(cond, cbits, instruction.qubits[1], instruction.params[1],
               instruction.params[2], instruction.params[3])
    ELSE IF name = "u2"
    THEN Euler(cond, cbits, instruction.qubits[1], PiHalf, instruction.params[1],
               instruction.params[2])
    ELSE IF name = "u1"
    THEN Euler(cond, cbits, instruction.qubits[1], 0, 0, instruction.params[1])
    ELSE <<>>

(* ---- CircuitToString: classical conditions ---- *)
\* index of the first stored declaration of the register, 0 when there is none
MatchingBfunc(bfunc_instructions, reg_idx) ==
    LET found == {i \in DOMAIN bfunc_instructions : bfunc_instructions[i].register = reg_idx}
    IN  IF found = {} THEN 0 ELSE CHOOSE i \in found : \A j \in found : i <= j

\* the bits of low..high that the value requires to be 0, ascending
RECURSIVE ZeroBits(_, _, _)
ZeroBits(low, high, val) ==
    IF low > high THEN <<>>
    ELSE (IF Bit(val, low) = 0 THEN <<low>> ELSE <<>>) \o ZeroBits(low + 1, high, val)

\* 'not b[...]\n', or '' when no bit is negated
NegateZeroesLine(lowest_mask_bit, mask_length, val) ==
    LET bits == ZeroBits(lowest_mask_bit, lowest_mask_bit + mask_length - 1, val)
    IN  IF bits = <<>> THEN <<>> ELSE <<NotStmt(bits)>>

\* 'b[low]' or 'b[low:high]'
BinaryControl(lowest_mask_bit, mask_length) ==
    IF mask_length = 1 THEN <<lowest_mask_bit>>
    ELSE <<lowest_mask_bit, lowest_mask_bit + mask_length - 1>>

\* A wrapper that negates around a gate that has no text.
WrapAlways(negate_zeroes_line, text) == negate_zeroes_line \o text \o negate_zeroes_line

\* the gate text between the two negation lines; nothing when the gate has no text
Wrap(negate_zeroes_line, text) ==
    IF text = <<>> THEN <<>> ELSE negate_zeroes_line \o text \o negate_zeroes_line

(* ---- CircuitToString: one gate function call ---- *)
Returned(p, isStr, text) ==
    [raised |-> FALSE, err |-> NoError, isStr |-> isStr, text |-> text, parser |-> p]
Raised(p, err) ==
    [raised |-> TRUE, err |-> err, isStr |-> FALSE, text |-> <<>>, parser |-> p]

\* what the gate function of a known name does with an unconditional instruction
Unconditional(p, name, instruction) ==
    IF name = "bfunc"
    THEN Returned([p EXCEPT !.bfunc_instructions = Append(@, instruction)], FALSE, <<>>)
    ELSE IF name = "barrier" THEN Returned(p, FALSE, <<>>)
    ELSE IF name = "measure"
    THEN IF p.full_state_projection THEN Returned(p, FALSE, <<>>)
         ELSE Returned(p, TRUE, <<MeasureStmt(instruction.qubits[1])>>)
    ELSE Returned(p, TRUE, GateText(name, instruction, FALSE, <<>>))

\* the same under a classical condition
Conditional(p, name, instruction) ==
    LET idx == MatchingBfunc(p.bfunc_instructions, instruction.conditional)
        conditional == p.bfunc_instructions[idx]
        mask == HexToInt(conditional.mask)
        val == HexToInt(conditional.val)
        md == get_mask_data(mask)
    IN  IF idx = 0 THEN Raised(p, ConditionalNotFound(instruction.conditional))
        ELSE IF conditional.relation # "==" THEN Raised(p, RelationNotSupported(conditional.relation))
        ELSE IF mask = 0 THEN Raised(p, WithoutMask(name))
        ELSE IF name \notin KnownGates THEN Returned(p, FALSE, <<>>)
        ELSE Returned(p, TRUE,
                      Wrap(NegateZeroesLine(md[1], md[2], val),
                           GateText(name, instruction, TRUE, BinaryControl(md[1], md[2]))))

GateFunction(p, name, instruction) ==
    IF instruction.conditional = NoConditional THEN Unconditional(p, name, instruction)
    ELSE Conditional(p, name, instruction)

(* ---- QuantumInspireBackend._generate_cqasm ---- *)
\* parser = CircuitToString()
NewParser == [bfunc_instructions |-> <<>>, full_state_projection |-> TRUE]

\* A parser that outlives the call that built it.
ReusedParser(previous) == previous

\* parser = CircuitToString(): built anew in every call, whatever an earlier call left
FreshParser(previous) == NewParser

\* A header whose qubit line says 2, the count of the test experiments.
HeaderOfTwo(number_of_qubits) == <<VersionStmt, CommentStmt, QubitsStmt(2)>>

\* the three header writes
Header(number_of_qubits) == <<VersionStmt, CommentStmt, QubitsStmt(number_of_qubits)>>

\* A dispatch that hands the gate function the instruction without its condition.
DispatchDropsCondition(p, instruction) ==
    IF Lower(instruction.name) \notin ParserAttributes
    THEN Raised(p, AttributeError(Lower(instruction.name)))
    ELSE Unconditional(p, Lower(instruction.name), instruction)

\* gate_function = getattr(parser, '_' + name.lower()); line = gate_function(dict)
Dispatch(p, instruction) ==
    IF Lower(instruction.name) \notin ParserAttributes
    THEN Raised(p, AttributeError(Lower(instruction.name)))
    ELSE GateFunction(p, Lower(instruction.name), instruction)

\* A write that prints whatever the gate function returned, None included.
WriteUnchecked(s, ln) ==
    IF ln.isStr THEN s \o ln.text ELSE s \o <<Stmt("None", FALSE, <<>>, <<>>, <<>>)>>

\* A write that loses the text of the gate function.
WriteNothing(s, ln) == s

\* if isinstance(line, str): stream.write(line)
Write(s, ln) == IF ln.isStr THEN s \o ln.text ELSE s

NoLine == [isStr |-> FALSE, text |-> <<>>]
NoResult == [returned |-> FALSE, text |-> <<>>]

\* the loop over instrs from the parser p and the buffer s, as a function
RECURSIVE GenerateFrom(_, _, _)
GenerateFrom(p, s, instrs) ==
    IF instrs = <<>> THEN [returned |-> TRUE, text |-> s, err |-> NoError]
    ELSE LET r == Dispatch(p, Head(instrs))
         IN  IF r.raised THEN [returned |-> FALSE, text |-> <<>>, err |-> r.err]
             ELSE GenerateFrom(r.parser, Write(s, [isStr |-> r.isStr, text |-> r.text]),
                               Tail(instrs))

\* _generate_cqasm as a function of the experiment alone
generate_cqasm(number_of_qubits, instrs) ==
    GenerateFrom(NewParser, Header(number_of_qubits), instrs)

\* run has not been called, the API has not been called, no job was returned
\* and get_experiment_results has not been called
NoQobj == [shots |-> 0, experiments |-> <<>>]
NoApiCalls == [projects |-> <<>>, executed |-> <<>>]
NoJob == [job_id |-> -1]
NoFetch == [jobs |-> <<>>, returned |-> FALSE, experiment_results |-> <<>>]

\* no conversion of results has been called
NoConversion ==
    [op |-> "none", number_of_qubits |-> 0, histogram |-> <<>>, measurements |-> <<>>,
     number_of_clbits |-> 0, raw_data |-> <<>>, prob |-> 0,
     drawn |-> -1, out_histogram |-> <<>>, memory_data |-> <<>>]

(* ---- the inputs ---- *)
RECURSIVE Hex(_)
Hex(n) == IF n < 16 THEN <<n>> ELSE Hex(n \div 16) \o <<n % 16>>

QubitCounts == {2}
Registers == 1..MaxReg
Relations == {"==", "!="}
MaskValues == 0..MaxMask

\* 0.0000004 and pi/2
SmallAngle == 4
U3Params == {<<0, 0, 0>>, <<PiHalf, 0, 0>>, <<0, SmallAngle, PiHalf>>, <<PiHalf, PiHalf, PiHalf>>}

\* every mask with every value under '==', every mask with two values under '!='
BfuncInstructions ==
    {Bfunc(Hex(m), r, "==", Hex(v)) : m \in MaskValues, r \in Registers, v \in MaskValues}
        \cup {Bfunc(Hex(m), r, rel, Hex(v)) : m \in MaskValues, r \in Registers,
                                              rel \in Relations \ {"=="}, v \in {0, MaxMask}}

\* the declarations of test_circuit_parser.py with masks above MaxMask:
\* (mask, val) = (0xFF, 0xE), (0x38, 0x18), (0xFE, 0x36), (0x40, 0x40), (0x40, 0x0),
\* (0x60, 0x40), (0x1FF, 0xB)
TestBfuncInstructions ==
    {Bfunc(mv[1], 1, "==", mv[2]) :
        mv \in {<<<<15, 15>>, <<14>>>>, <<<<3, 8>>, <<1, 8>>>>, <<<<15, 14>>, <<3, 6>>>>,
                <<<<4, 0>>, <<4, 0>>>>, <<<<4, 0>>, <<0>>>>, <<<<6, 0>>, <<4, 0>>>>,
                <<<<1, 15, 15>>, <<11>>>>}}

GateInstructions ==
    LET conds == {NoConditional} \cup Registers
    IN  {Instr(n, <<0>>, <<>>, c) : n \in {"h", "H", "barrier"}, c \in conds}
        \cup {Instr("cx", <<0, 1>>, <<>>, c) : c \in conds}
        \cup {Instr("rx", <<1>>, <<PiHalf>>, c) : c \in conds}
        \cup {Instr("u3", <<0>>, ps, c) : ps \in U3Params, c \in conds}
        \cup {Instr("bla", <<1>>, <<PiHalf>>, c) : c \in conds}

MeasureInstructions == {Measure(q, q) : q \in 0..1}

DeclaredRegisters(instrs) ==
    {instrs[i].register : i \in {j \in DOMAIN instrs : instrs[j].name = "bfunc"}}

NumBfunc(instrs) == Cardinality({j \in DOMAIN instrs : instrs[j].name = "bfunc"})

\* the instructions that can follow instrs in an assembled experiment: the
\* assembler gives every mask declaration a condition register of its own,
\* numbered upwards
NextInstructions(instrs) ==
    GateInstructions \cup MeasureInstructions
        \cup (IF NumBfunc(instrs) < MaxBfunc
              THEN {b \in BfuncInstructions \cup TestBfuncInstructions :
                        \A r \in DeclaredRegisters(instrs) : r < b.register}
              ELSE {})

(* ---- the state machine ---- *)
Init ==
    /\ pc = "idle"
    /\ call_fsp = "absent"
    /\ n_qubits = 0
    /\ instructions = <<>>
    /\ parser = NewParser
    /\ stream = <<>>
    /\ mark = 0
    /\ line = NoLine
    /\ error = NoError
    /\ result = NoResult
    /\ mask_arg = -1
    /\ mask_res = <<>>
    /\ calls = <<>>
    /\ conv = NoConversion
    /\ qobj = NoQobj
    /\ api = NoApiCalls
    /\ job = NoJob
    /\ fetched = NoFetch

\* CircuitToString.get_mask_data(mask), called directly
CallGetMaskData ==
    /\ pc = "idle"
    /\ \E mask \in 0..MaxTestMask :
        /\ mask_arg' = mask
        /\ mask_res' = get_mask_data(mask)
    /\ pc' = "mask_done"
    /\ UNCHANGED <<call_fsp, n_qubits, instructions, parser, stream, mark, line, error, result,
                   calls, conv,
                   qobj, api, job, fetched>>

\* the call with an experiment whose qubit count is one of counts
GenerateCqasmCalled(counts) ==
    /\ pc = "idle"
    /\ \E nq \in counts :
        /\ n_qubits' = nq
        /\ call_fsp' = "absent"
        /\ parser' = FreshParser(parser)
        /\ stream' = Header(nq)
        /\ mark' = Len(Header(nq))
    /\ pc' = "loop"
    /\ UNCHANGED <<instructions, line, error, result, mask_arg, mask_res, calls, conv,
                   qobj, api, job, fetched>>

\* backend._generate_cqasm(experiment): the signature takes the experiment only
CallGenerateCqasm == GenerateCqasmCalled(QubitCounts)

\* backend._generate_cqasm(experiment, full_state_projection): one argument too many
CallGenerateCqasmWithFlag ==
    /\ pc = "idle"
    /\ \E nq \in QubitCounts, fsp \in {"true", "false"} :
        /\ n_qubits' = nq
        /\ call_fsp' = fsp
    /\ error' = TypeError
    /\ pc' = "failed"
    /\ UNCHANGED <<instructions, parser, stream, mark, line, result, mask_arg, mask_res,
                   calls, conv,
                   qobj, api, job, fetched>>

\* one iteration of the loop, the next instruction of the experiment being one of next
Iteration(next) ==
    /\ pc = "loop"
    /\ \E instruction \in next :
        LET r == Dispatch(parser, instruction)
        IN  /\ instructions' = Append(instructions, instruction)
            /\ mark' = Len(stream)
            /\ parser' = r.parser
            /\ IF r.raised
               THEN /\ error' = r.err
                    /\ pc' = "failed"
                    /\ line' = NoLine
                    /\ stream' = stream
               ELSE /\ line' = [isStr |-> r.isStr, text |-> r.text]
                    /\ stream' = Write(stream, [isStr |-> r.isStr, text |-> r.text])
                    /\ UNCHANGED <<error, pc>>
    /\ UNCHANGED <<call_fsp, n_qubits, result, mask_arg, mask_res, calls, conv,
                   qobj, api, job, fetched>>

\* one iteration of 'for instruction in instructions'
LoopIteration ==
    /\ Len(instructions) < MaxInstr
    /\ Iteration(NextInstructions(instructions))

\* return stream.getvalue()
Return ==
    /\ pc = "loop"
    /\ result' = [returned |-> TRUE, text |-> stream]
    /\ pc' = "done"
    /\ UNCHANGED <<call_fsp, n_qubits, instructions, parser, stream, mark, line, error,
                   mask_arg, mask_res, calls, conv,
                   qobj, api, job, fetched>>

Next ==
    \/ CallGetMaskData
    \/ CallGenerateCqasm
    \/ CallGenerateCqasmWithFlag
    \/ LoopIteration
    \/ Return

Spec == Init /\ [][Next]_vars

(* ---- the translator on the gates without parameters ---- *)
GateQubitCounts == {2, 3}

\* the declarations of the tests of the conditional gates: mask 0xF with value
\* 0xE, and a one-bit mask whose value bit is set
FixedGateBfuncs == {Bfunc(<<15>>, 1, "==", <<14>>), Bfunc(<<1>>, 1, "==", <<1>>)}

\* every gate of the table, on the qubits in both orders, with and without a condition
FixedGateInstructions ==
    LET conds == {NoConditional, 1}
    IN  {Instr(n, <<q>>, <<>>, c) :
            n \in {"id", "x", "y", "z", "h", "s", "sdg", "t", "tdg"}, q \in 0..1, c \in conds}
        \cup {Instr(n, qs, <<>>, c) :
                n \in {"swap", "cx", "cz"}, qs \in {<<0, 1>>, <<1, 0>>}, c \in conds}
        \cup {Instr("ccx", qs, <<>>, c) : qs \in {<<0, 1, 2>>, <<2, 0, 1>>}, c \in conds}

NextFixedGate(instrs) ==
    FixedGateInstructions
        \cup (IF NumBfunc(instrs) < MaxBfunc
              THEN {b \in FixedGateBfuncs : \A r \in DeclaredRegisters(instrs) : r < b.register}
              ELSE {})

GatesCall == GenerateCqasmCalled(GateQubitCounts)

GatesLoop ==
    /\ Len(instructions) < MaxInstr
    /\ Iteration(NextFixedGate(instructions))

GatesNext ==
    \/ GatesCall
    \/ GatesLoop
    \/ Return

SpecGates == Init /\ [][GatesNext]_vars

(* ---- the translator on the gates with angles ---- *)
\* 0, 0.0000004, pi/2 and -pi/2
Angles == {0, SmallAngle, PiHalf, -PiHalf}

\* the declaration of the tests of the conditional u gates: mask 0xF with value 0xE
RotationBfuncs == {Bfunc(<<15>>, 1, "==", <<14>>)}

RotationInstructions ==
    LET conds == {NoConditional, 1}
    IN  {Instr(n, <<1>>, <<a>>, c) : n \in RotationGates \cup {"u1"}, a \in Angles, c \in conds}
        \cup {Instr("u2", <<1>>, <<a, b>>, c) : a \in Angles, b \in Angles, c \in conds}
        \cup {Instr(n, <<1>>, <<a, b, d>>, c) :
                n \in {"u", "u3"}, a \in Angles, b \in Angles, d \in Angles, c \in conds}

NumRotations(instrs) == Cardinality({j \in DOMAIN instrs : instrs[j].name # "bfunc"})

NextRotation(instrs) ==
    (IF NumRotations(instrs) < MaxRotations THEN RotationInstructions ELSE {})
        \cup (IF NumBfunc(instrs) < MaxBfunc
              THEN {b \in RotationBfuncs : \A r \in DeclaredRegisters(instrs) : r < b.register}
              ELSE {})

RotationsCall == GenerateCqasmCalled(QubitCounts)

RotationsLoop == Iteration(NextRotation(instructions))

RotationsNext ==
    \/ RotationsCall
    \/ RotationsLoop
    \/ Return

SpecRotations == Init /\ [][RotationsNext]_vars

(* ---- one backend translating one experiment after another ---- *)
\* a declaration for register 1, a gate under that register and the same gate
\* without a condition
CallsInstructions ==
    {Bfunc(<<1>>, 1, "==", <<0>>), Instr("h", <<0>>, <<>>, 1), Instr("h", <<0>>, <<>>, NoConditional)}

NextOfCalls(instrs) ==
    {i \in CallsInstructions :
        i.name = "bfunc" => /\ NumBfunc(instrs) < MaxBfunc
                            /\ \A r \in DeclaredRegisters(instrs) : r < i.register}

CallsCall ==
    /\ Len(calls) < MaxCalls
    /\ GenerateCqasmCalled(QubitCounts)

CallsLoop ==
    /\ Len(instructions) < MaxInstr
    /\ Iteration(NextOfCalls(instructions))

\* the call is over, by return or by exception, and the backend is free for
\* the next experiment; the parser of the call is left behind
NextExperiment ==
    /\ pc \in {"done", "failed"}
    /\ calls' = Append(calls, [number_of_qubits |-> n_qubits, instructions |-> instructions,
                               returned |-> result.returned, text |-> result.text,
                               error |-> error])
    /\ pc' = "idle"
    /\ instructions' = <<>>
    /\ stream' = <<>>
    /\ mark' = 0
    /\ line' = NoLine
    /\ error' = NoError
    /\ result' = NoResult
    /\ UNCHANGED <<call_fsp, n_qubits, parser, mask_arg, mask_res, conv,
                   qobj, api, job, fetched>>

CallsNext ==
    \/ CallsCall
    \/ CallsLoop
    \/ Return
    \/ NextExperiment

SpecCalls == Init /\ [][CallsNext]_vars

(* ---- QuantumInspireBackend: from measured qubits to classical bits ---- *)
IndexError == [type |-> "IndexError", msg |-> <<"index out of range">>, num |-> -1]
ValueError == [type |-> "ValueError", msg |-> <<"invalid literal for int() with base 2: ''">>, num |-> -1]

\* x[i] of Python on a sequence of length len: the indices -len..len-1 are good
IndexInRange(i, len) == i >= -len /\ i < len
Position(i, len) == IF i >= 0 THEN i + 1 ELSE len + i + 1

\* '{0:b}'.format(value): the binary digits, most significant first
RECURSIVE BinaryDigits(_)
BinaryDigits(value) ==
    IF value < 2 THEN <<value>> ELSE BinaryDigits(value \div 2) \o <<value % 2>>

\* '{0:0{1}b}'.format(value, width): padded with zeroes to at least width digits
FormatBinary(value, width) ==
    LET digits == BinaryDigits(value)
    IN  IF Len(digits) >= width THEN digits
        ELSE [k \in 1..(width - Len(digits)) |-> 0] \o digits

\* int(digits, 2)
RECURSIVE IntBase2(_)
IntBase2(digits) ==
    IF digits = <<>> THEN 0
    ELSE 2 * IntBase2(SubSeq(digits, 1, Len(digits) - 1)) + digits[Len(digits)]

\* hex(value) and int(key, 16)
HexString(value) == Hex(value)
HexKey(key) == HexToInt(key)

\* for q, c in measurements['measurements']: classical_state[c] = qubit_state[q]
RECURSIVE AssignMeasured(_, _, _)
AssignMeasured(classical_state, qubit_state, pairs) ==
    IF pairs = <<>> THEN [raised |-> FALSE, state |-> classical_state]
    ELSE LET q == Head(pairs)[1]
             c == Head(pairs)[2]
         IN  IF ~IndexInRange(q, Len(qubit_state)) \/ ~IndexInRange(c, Len(classical_state))
             THEN [raised |-> TRUE, state |-> classical_state]
             ELSE AssignMeasured(
                      [classical_state EXCEPT ![Position(c, Len(classical_state))] =
                          qubit_state[Position(q, Len(qubit_state))]],
                      qubit_state, Tail(pairs))

\* A map that keeps the indices of the instructions as they are.
collect_measurements_unreversed(number_of_qubits, memory_slots, operations) ==
    LET measures == SelectSeq(operations, LAMBDA m : m.name = "measure")
        measurements == [k \in DOMAIN measures |->
                            <<measures[k].qubits[1], measures[k].memory[1]>>]
    IN  [measurements |-> IF measurements = <<>>
                          THEN [k \in 1..number_of_qubits |-> <<k - 1, k - 1>>]
                          ELSE measurements,
         number_of_clbits |-> memory_slots]

\* _collect_measurements(experiment)
collect_measurements(number_of_qubits, memory_slots, operations) ==
    LET measures == SelectSeq(operations, LAMBDA m : m.name = "measure")
        measurements == [k \in DOMAIN measures |->
                            <<number_of_qubits - 1 - measures[k].qubits[1],
                              memory_slots - 1 - measures[k].memory[1]>>]
    IN  [measurements |-> IF measurements = <<>>
                          THEN [k \in 1..number_of_qubits |-> <<k - 1, k - 1>>]
                          ELSE measurements,
         number_of_clbits |-> memory_slots]

\* __qubit_to_classical_hex(qubit_register, measurements, number_of_qubits)
qubit_to_classical_hex(qubit_register, measurements, number_of_qubits) ==
    LET qubit_state == FormatBinary(qubit_register, number_of_qubits)
        zeroes == [k \in 1..measurements.number_of_clbits |-> 0]
        assigned == AssignMeasured(zeroes, qubit_state, measurements.measurements)
    IN  IF assigned.raised THEN [raised |-> TRUE, err |-> IndexError, hex |-> <<>>]
        ELSE IF assigned.state = <<>> THEN [raised |-> TRUE, err |-> ValueError, hex |-> <<>>]
        ELSE [raised |-> FALSE, err |-> NoError, hex |-> HexString(IntBase2(assigned.state))]

(* ---- QuantumInspireBackend: the histograms of a result ---- *)
\* A dict is the sequence of its items <<key, value>> in insertion order.
HasKey(items, key) == \E k \in DOMAIN items : items[k][1] = key

\* An accumulation that keeps the last probability of a key.
AccumulateLast(items, key, probability) ==
    IF HasKey(items, key)
    THEN [k \in DOMAIN items |-> IF items[k][1] = key THEN <<key, probability>> ELSE items[k]]
    ELSE Append(items, <<key, probability>>)

\* output_histogram_probabilities[classical_state_hex] += probability, on a defaultdict of 0
Accumulate(items, key, probability) ==
    IF HasKey(items, key)
    THEN [k \in DOMAIN items |->
            IF items[k][1] = key THEN <<key, items[k][2] + probability>> ELSE items[k]]
    ELSE Append(items, <<key, 0 + probability>>)

\* A histogram left in insertion order.
Unsorted(items) == items

RECURSIVE InsertByKey(_, _)
InsertByKey(sorted, item) ==
    IF sorted = <<>> THEN <<item>>
    ELSE IF HexKey(item[1]) < HexKey(Head(sorted)[1]) THEN <<item>> \o sorted
    ELSE <<Head(sorted)>> \o InsertByKey(Tail(sorted), item)

RECURSIVE SortedFrom(_, _)
SortedFrom(sorted, items) ==
    IF items = <<>> THEN sorted ELSE SortedFrom(InsertByKey(sorted, Head(items)), Tail(items))

\* OrderedDict(sorted(items, key=lambda kv: int(kv[0], 16)))
Sorted(items) == SortedFrom(<<>>, items)

RECURSIVE ConvertItems(_, _, _, _)
ConvertItems(output, state_probability, measurements, number_of_qubits) ==
    IF state_probability = <<>> THEN [raised |-> FALSE, err |-> NoError, items |-> output]
    ELSE LET h == qubit_to_classical_hex(Head(state_probability)[1], measurements, number_of_qubits)
         IN  IF h.raised THEN [raised |-> TRUE, err |-> h.err, items |-> <<>>]
             ELSE ConvertItems(Accumulate(output, h.hex, Head(state_probability)[2]),
                               Tail(state_probability), measurements, number_of_qubits)

\* __convert_histogram(result, measurements)
convert_histogram(res, measurements) ==
    LET output == ConvertItems(<<>>, res.histogram, measurements, res.number_of_qubits)
    IN  IF output.raised THEN [raised |-> TRUE, err |-> output.err, histogram |-> <<>>]
        ELSE [raised |-> FALSE, err |-> NoError, histogram |-> Sorted(output.items)]

\* memory_data.append(classical_state_hex) for every sample of raw_data
RECURSIVE ConvertSamples(_, _, _, _)
ConvertSamples(memory_data, raw_data, measurements, number_of_qubits) ==
    IF raw_data = <<>> THEN [raised |-> FALSE, err |-> NoError, memory |-> memory_data]
    ELSE LET h == qubit_to_classical_hex(Head(raw_data), measurements, number_of_qubits)
         IN  IF h.raised THEN [raised |-> TRUE, err |-> h.err, memory |-> <<>>]
             ELSE ConvertSamples(Append(memory_data, h.hex), Tail(raw_data), measurements,
                                 number_of_qubits)

\* A count that records that a value occurred, not how often.
CountOnce(memory_data) ==
    LET firsts == {k \in DOMAIN memory_data : \A j \in 1..(k - 1) : memory_data[j] # memory_data[k]}
        RECURSIVE Once(_)
        Once(k) == IF k > Len(memory_data) THEN <<>>
                   ELSE (IF k \in firsts THEN <<<<memory_data[k], 1>>>> ELSE <<>>) \o Once(k + 1)
    IN  Once(1)

\* for elem, count in Counter(memory_data).items(): histogram_data[elem] = count
CountSamples(memory_data) ==
    LET firsts == {k \in DOMAIN memory_data : \A j \in 1..(k - 1) : memory_data[j] # memory_data[k]}
        count(elem) == Cardinality({j \in DOMAIN memory_data : memory_data[j] = elem})
        RECURSIVE From(_)
        From(k) == IF k > Len(memory_data) THEN <<>>
                   ELSE (IF k \in firsts THEN <<<<memory_data[k], count(memory_data[k])>>>> ELSE <<>>)
                            \o From(k + 1)
    IN  From(1)

\* A loop that also breaks where the cumulated probability equals prob.
RECURSIVE DrawStateInclusive(_, _, _)
DrawStateInclusive(state_probabilities, sum_probability, prob) ==
    IF state_probabilities = <<>> THEN -1
    ELSE IF prob <= sum_probability + Head(state_probabilities)[2] THEN Head(state_probabilities)[1]
    ELSE DrawStateInclusive(Tail(state_probabilities),
                            sum_probability + Head(state_probabilities)[2], prob)

\* the loop of the single shot: the register of the first state whose
\* cumulated probability exceeds prob, -1 when the loop ends without a break
RECURSIVE DrawState(_, _, _)
DrawState(state_probabilities, sum_probability, prob) ==
    IF state_probabilities = <<>> THEN -1
    ELSE IF prob < sum_probability + Head(state_probabilities)[2] THEN Head(state_probabilities)[1]
    ELSE DrawState(Tail(state_probabilities), sum_probability + Head(state_probabilities)[2], prob)

\* __convert_result_data(result, measurements), raw_data being what the API
\* returns for the result and prob what np.random.rand() returns
convert_result_data(res, measurements, raw_data, prob) ==
    IF raw_data # <<>>
    THEN LET m == ConvertSamples(<<>>, raw_data, measurements, res.number_of_qubits)
         IN  IF m.raised
             THEN [raised |-> TRUE, err |-> m.err, drawn |-> -1, histogram |-> <<>>,
                   memory |-> <<>>]
             ELSE [raised |-> FALSE, err |-> NoError, drawn |-> -1,
                   histogram |-> Sorted(CountSamples(m.memory)), memory |-> m.memory]
    ELSE LET drawn == DrawState(res.histogram, 0, prob)
             h == qubit_to_classical_hex(drawn, measurements, res.number_of_qubits)
         IN  IF drawn = -1
             THEN [raised |-> FALSE, err |-> NoError, drawn |-> -1, histogram |-> <<>>,
                   memory |-> <<>>]
             ELSE IF h.raised
             THEN [raised |-> TRUE, err |-> h.err, drawn |-> drawn, histogram |-> <<>>,
                   memory |-> <<>>]
             ELSE [raised |-> FALSE, err |-> NoError, drawn |-> drawn,
                   histogram |-> Sorted(<<<<h.hex, 1>>>>), memory |-> <<h.hex>>]

(* ---- the results that are converted ---- *)
ResultQubits == 2
MemorySlots == {1, 2, 3, 5}

\* the measure instructions of an experiment: none, one qubit, both qubits
\* straight and crossed, two qubits into one bit, one qubit into two bits,
\* and a qubit into the fifth bit, which gives keys of two hex digits
MeasureSequences ==
    {<<>>, <<Measure(0, 0)>>, <<Measure(1, 0)>>, <<Measure(0, 1)>>,
     <<Measure(0, 0), Measure(1, 1)>>, <<Measure(0, 1), Measure(1, 0)>>,
     <<Measure(0, 0), Measure(1, 0)>>, <<Measure(1, 1), Measure(1, 0)>>,
     <<Measure(0, 2), Measure(1, 0)>>, <<Measure(0, 4), Measure(1, 1)>>}

\* what _collect_measurements leaves in the user data of the jobs
MeasurementMaps ==
    UNION {{collect_measurements(ResultQubits, slots, ops) :
                ops \in {s \in MeasureSequences : \A k \in DOMAIN s : s[k].memory[1] < slots}} :
           slots \in MemorySlots}

RECURSIVE SumOf(_)
SumOf(values) == IF values = <<>> THEN 0 ELSE Head(values) + SumOf(Tail(values))

\* histograms of 1..MaxStates different states in any order, their
\* probabilities adding up to 1 or, where rounding took it, just less
Histograms ==
    UNION {{[k \in 1..len |-> <<keys[k], values[k]>>] :
                keys \in {s \in [1..len -> 0..(Pow2(ResultQubits) - 1)] :
                            \A i, j \in 1..len : i # j => s[i] # s[j]},
                values \in {v \in [1..len -> 0..One] : SumOf(v) \in {One - 1, One}}} :
           len \in 1..MaxStates}

\* the samples of 1..MaxShots shots
RawData == UNION {[1..len -> 0..(Pow2(ResultQubits) - 1)] : len \in 1..MaxShots}

\* np.random.rand() is in [0, 1)
Draws == 0..(One - 1)

\* full_state_histogram_obj = self.__convert_histogram(result, measurements)
CallConvertHistogram ==
    /\ pc = "idle"
    /\ \E histogram \in Histograms, measurements \in MeasurementMaps :
        LET res == [number_of_qubits |-> ResultQubits, histogram |-> histogram]
            out == convert_histogram(res, measurements)
        IN  /\ conv' = [op |-> "convert_histogram", number_of_qubits |-> ResultQubits,
                        histogram |-> histogram, measurements |-> measurements.measurements,
                        number_of_clbits |-> measurements.number_of_clbits,
                        raw_data |-> <<>>, prob |-> -1, drawn |-> -1,
                        out_histogram |-> out.histogram, memory_data |-> <<>>]
            /\ error' = out.err
            /\ pc' = IF out.raised THEN "failed" ELSE "converted"
    /\ UNCHANGED <<call_fsp, n_qubits, instructions, parser, stream, mark, line, result,
                   mask_arg, mask_res, calls,
                   qobj, api, job, fetched>>

\* the result of a job with samples, or of a single shot without
ResultsWithRawData ==
    {<<<<<<raw_data[1], One>>>>, raw_data, -1>> : raw_data \in RawData}
        \cup {<<histogram, <<>>, prob>> : histogram \in Histograms, prob \in Draws}

\* histogram_obj, memory_data = self.__convert_result_data(result, measurements)
CallConvertResultData ==
    /\ pc = "idle"
    /\ \E given \in ResultsWithRawData, measurements \in MeasurementMaps :
        LET res == [number_of_qubits |-> ResultQubits, histogram |-> given[1]]
            out == convert_result_data(res, measurements, given[2], given[3])
        IN  /\ conv' = [op |-> "convert_result_data", number_of_qubits |-> ResultQubits,
                        histogram |-> given[1], measurements |-> measurements.measurements,
                        number_of_clbits |-> measurements.number_of_clbits,
                        raw_data |-> given[2], prob |-> given[3], drawn |-> out.drawn,
                        out_histogram |-> out.histogram, memory_data |-> out.memory]
            /\ error' = out.err
            /\ pc' = IF out.raised THEN "failed" ELSE "converted"
    /\ UNCHANGED <<call_fsp, n_qubits, instructions, parser, stream, mark, line, result,
                   mask_arg, mask_res, calls,
                   qobj, api, job, fetched>>

ResultsNext ==
    \/ CallConvertHistogram
    \/ CallConvertResultData

SpecResults == Init /\ [][ResultsNext]_vars

(* ---- QuantumInspireBackend: validation of a job ---- *)
QisKitBackendError(msg, num) == [type |-> "QisKitBackendError", msg |-> msg, num |-> num]
InvalidShots(number_of_shots) == QisKitBackendError(<<"Invalid shots (number_of_shots=">>, number_of_shots)
InvalidClbits(number_of_clbits) ==
    QisKitBackendError(<<"Invalid amount of classical bits (">>, number_of_clbits)
OperationAfterMeasurement == QisKitBackendError(<<"Operation after measurement!">>, -1)

\* an experiment: its header and its instructions
Experiment(number_of_qubits, memory_slots, instrs) ==
    [n_qubits |-> number_of_qubits, memory_slots |-> memory_slots, instructions |-> instrs]

\* __validate_number_of_shots(job)
validate_number_of_shots(shots) ==
    IF shots < 1 THEN InvalidShots(shots) ELSE NoError

\* __validate_number_of_clbits(experiment)
validate_number_of_clbits(experiment) ==
    IF experiment.memory_slots < 1 THEN InvalidClbits(experiment.memory_slots) ELSE NoError

\* A validation of the shots alone.
validate_shots_only(the_job) == validate_number_of_shots(the_job.shots)

\* A validation that takes a second measurement of a qubit for an operation on it.
RECURSIVE AnyAfterMeasure(_, _)
AnyAfterMeasure(instrs, measured_qubits) ==
    IF instrs = <<>> THEN NoError
    ELSE LET instruction == Head(instrs)
             qubits == {instruction.qubits[k] : k \in DOMAIN instruction.qubits}
         IN  IF qubits \cap measured_qubits # {} THEN OperationAfterMeasurement
             ELSE IF instruction.name = "measure"
             THEN AnyAfterMeasure(Tail(instrs), measured_qubits \cup qubits)
             ELSE AnyAfterMeasure(Tail(instrs), measured_qubits)

\* the two loops over the instructions and their qubits, measured_qubits
\* being the qubits appended so far
RECURSIVE GatesAfterMeasure(_, _)
GatesAfterMeasure(instrs, measured_qubits) ==
    IF instrs = <<>> THEN NoError
    ELSE LET instruction == Head(instrs)
             qubits == {instruction.qubits[k] : k \in DOMAIN instruction.qubits}
         IN  IF instruction.name = "measure"
             THEN GatesAfterMeasure(Tail(instrs), measured_qubits \cup qubits)
             ELSE IF qubits \cap measured_qubits # {} THEN OperationAfterMeasurement
             ELSE GatesAfterMeasure(Tail(instrs), measured_qubits)

\* A validation that is hard on measuring a qubit twice.
validate_no_operation_after_measure(experiment) ==
    AnyAfterMeasure(experiment.instructions, {})

\* __validate_no_gates_after_measure(experiment): measured_qubits = [] in every call
validate_no_gates_after_measure(experiment) ==
    GatesAfterMeasure(experiment.instructions, {})

\* for experiment in job.experiments: the two validations of each, in order
RECURSIVE ValidateExperiments(_)
ValidateExperiments(experiments) ==
    IF experiments = <<>> THEN NoError
    ELSE IF validate_number_of_clbits(Head(experiments)) # NoError
    THEN validate_number_of_clbits(Head(experiments))
    ELSE IF validate_no_gates_after_measure(Head(experiments)) # NoError
    THEN validate_no_gates_after_measure(Head(experiments))
    ELSE ValidateExperiments(Tail(experiments))

\* __validate(job)
validate(the_job) ==
    IF validate_number_of_shots(the_job.shots) # NoError
    THEN validate_number_of_shots(the_job.shots)
    ELSE ValidateExperiments(the_job.experiments)

\* QuantumInspireBackend.__validate(qobj), the first statement of run, on one of jobs
Validated(jobs) ==
    /\ pc = "idle"
    /\ \E the_job \in jobs :
        /\ qobj' = the_job
        /\ error' = validate(the_job)
        /\ pc' = IF validate(the_job) # NoError THEN "failed" ELSE "validated"
    /\ UNCHANGED <<call_fsp, n_qubits, instructions, parser, stream, mark, line, result,
                   mask_arg, mask_res, calls, conv, api, job, fetched>>

(* ---- the jobs that are validated ---- *)
\* gates on either qubit and on both, a barrier, and the measurement of either qubit
ValidationInstructions ==
    {Instr("h", <<0>>, <<>>, NoConditional), Instr("h", <<1>>, <<>>, NoConditional),
     Instr("cx", <<0, 1>>, <<>>, NoConditional), Instr("barrier", <<0>>, <<>>, NoConditional)}
        \cup MeasureInstructions

ValidationSequences == UNION {[1..len -> ValidationInstructions] : len \in 0..MaxInstr}

\* experiments that come before the last one of a job
EarlierExperiments ==
    {<<>>, <<Experiment(2, 2, <<Measure(0, 0)>>)>>,
     <<Experiment(2, 2, <<Instr("h", <<0>>, <<>>, NoConditional)>>)>>,
     <<Experiment(2, 0, <<>>)>>}

ValidationJobs ==
    {[shots |-> shots, experiments |-> earlier \o <<Experiment(2, slots, instrs)>>] :
        shots \in 0..1, earlier \in EarlierExperiments, slots \in 0..1,
        instrs \in ValidationSequences}

CallValidate == Validated(ValidationJobs)

ValidateNext ==
    \/ CallValidate

SpecValidate == Init /\ [][ValidateNext]_vars

(* ---- QuantumInspireBackend.run ---- *)
\* an exception of the API client
ErrorMessage == [type |-> "ErrorMessage", msg |-> <<>>, num |-> -1]

\* the ids the API gives to a new project
ProjectIds == {7, 8}

\* A submission that leaves the project argument at its default, None.
SubmissionWithoutProject(experiment, number_of_shots, project) ==
    [project |-> -1, number_of_shots |-> number_of_shots,
     qasm |-> generate_cqasm(experiment.n_qubits, experiment.instructions).text,
     measurements |-> collect_measurements(experiment.n_qubits, experiment.memory_slots,
                                           experiment.instructions)]

\* the arguments of execute_qasm_async in _submit_experiment
Submission(experiment, number_of_shots, project) ==
    [project |-> project.id, number_of_shots |-> number_of_shots,
     qasm |-> generate_cqasm(experiment.n_qubits, experiment.instructions).text,
     measurements |-> collect_measurements(experiment.n_qubits, experiment.memory_slots,
                                           experiment.instructions)]

\* project = self.__api.create_project(project_name, number_of_shots, self.__backend)
CreateProject ==
    /\ pc = "validated"
    /\ \/ /\ error' = ErrorMessage
          /\ pc' = "failed"
          /\ api' = api
       \/ /\ \E id \in ProjectIds :
                api' = [api EXCEPT !.projects = Append(@, [id |-> id, number_of_shots |-> qobj.shots])]
          /\ pc' = "submitting"
          /\ error' = error
    /\ UNCHANGED <<call_fsp, n_qubits, instructions, parser, stream, mark, line, result,
                   mask_arg, mask_res, calls, conv, qobj, job, fetched>>

\* self._submit_experiment(experiment, number_of_shots, project=project) for
\* the next experiment of the job
SubmitExperiment ==
    /\ pc = "submitting"
    /\ Len(api.executed) < Len(qobj.experiments)
    /\ LET experiment == qobj.experiments[Len(api.executed) + 1]
           compiled_qasm == generate_cqasm(experiment.n_qubits, experiment.instructions)
       IN  IF ~compiled_qasm.returned
           THEN /\ error' = compiled_qasm.err
                /\ pc' = "failed"
                /\ api' = api
           ELSE \/ /\ error' = ErrorMessage
                   /\ pc' = "failed"
                   /\ api' = api
                \/ /\ api' = [api EXCEPT !.executed =
                                  Append(@, Submission(experiment, qobj.shots,
                                                       api.projects[Len(api.projects)]))]
                   /\ UNCHANGED <<pc, error>>
    /\ UNCHANGED <<call_fsp, n_qubits, instructions, parser, stream, mark, line, result,
                   mask_arg, mask_res, calls, conv, qobj, job, fetched>>

\* job = QIJob(self, str(project['id']), self.__api); return job
RunReturn ==
    /\ pc = "submitting"
    /\ Len(api.executed) = Len(qobj.experiments)
    /\ job' = [job_id |-> api.projects[Len(api.projects)].id]
    /\ pc' = "run_done"
    /\ UNCHANGED <<call_fsp, n_qubits, instructions, parser, stream, mark, line, error, result,
                   mask_arg, mask_res, calls, conv, qobj, api, fetched>>

(* ---- the jobs that are run ---- *)
\* experiments that are valid, with one measurement, with two crossed
\* measurements and without any on fewer and on more memory slots than qubits;
\* an experiment without memory slots, one with a gate after a measurement,
\* and one with a gate that cannot be translated
RunExperiments ==
    {Experiment(2, 2, <<Instr("h", <<0>>, <<>>, NoConditional), Measure(0, 0)>>),
     Experiment(2, 2, <<Measure(0, 1), Measure(1, 0)>>),
     Experiment(2, 1, <<Instr("h", <<0>>, <<>>, NoConditional)>>),
     Experiment(2, 3, <<>>),
     Experiment(2, 0, <<Instr("h", <<0>>, <<>>, NoConditional)>>),
     Experiment(2, 2, <<Measure(0, 0), Instr("h", <<0>>, <<>>, NoConditional)>>),
     Experiment(2, 2, <<Instr("bla", <<1>>, <<PiHalf>>, NoConditional)>>)}

RunJobs ==
    {[shots |-> shots, experiments |-> experiments] :
        shots \in 0..2,
        experiments \in UNION {[1..len -> RunExperiments] : len \in 0..MaxExperiments}}

RunValidate == Validated(RunJobs)

RunNext ==
    \/ RunValidate
    \/ CreateProject
    \/ SubmitExperiment
    \/ RunReturn

SpecRun == Init /\ [][RunNext]_vars

(* ---- get_experiment_results ---- *)
\* 'Result from backend contains no histogram data!\n{raw_text}'
NoHistogramData(raw_text) ==
    QisKitBackendError(<<"Result from backend contains no histogram data!\n", raw_text>>, -1)

\* not result.get('histogram', {})
NoHistogram(res) == ~res.has_histogram \/ res.histogram = <<>>

\* result.get('raw_text'), None when the result has no such key
RawText(res) == IF res.has_raw_text THEN res.raw_text ELSE "None"

\* a job of a project as the API returns it, with the result it points to
\* and the raw data the result points to
ProjectJob(name, number_of_shots, measurements, res, raw_data) ==
    [name |-> name, number_of_shots |-> number_of_shots, measurements |-> measurements,
     result |-> res, raw_data |-> raw_data]

\* a result with histogram data, and results without
Result(histogram) ==
    [has_histogram |-> TRUE, histogram |-> histogram, number_of_qubits |-> ResultQubits,
     has_raw_text |-> TRUE, raw_text |-> ""]
EmptyResult(raw_text) ==
    [has_histogram |-> TRUE, histogram |-> <<>>, number_of_qubits |-> ResultQubits,
     has_raw_text |-> TRUE, raw_text |-> raw_text]
ResultWithoutHistogram ==
    [has_histogram |-> FALSE, histogram |-> <<>>, number_of_qubits |-> ResultQubits,
     has_raw_text |-> FALSE, raw_text |-> ""]

\* ExperimentResult(name, shots, data = ExperimentResultData(counts,
\* probabilities, memory), ...)
ExperimentResult(the_job, converted, full_state) ==
    [name |-> the_job.name, shots |-> the_job.number_of_shots, status |-> "DONE",
     success |-> TRUE, counts |-> converted.histogram, memory |-> converted.memory,
     probabilities |-> full_state.histogram]

\* the body of the loop over the results and jobs, prob being what
\* np.random.rand() returns
ConvertJob(the_job, prob) ==
    IF NoHistogram(the_job.result)
    THEN [raised |-> TRUE, err |-> NoHistogramData(RawText(the_job.result)), result |-> <<>>]
    ELSE LET converted == convert_result_data(the_job.result, the_job.measurements,
                                              the_job.raw_data, prob)
             full_state == convert_histogram(the_job.result, the_job.measurements)
         IN  IF converted.raised
             THEN [raised |-> TRUE, err |-> converted.err, result |-> <<>>]
             ELSE IF full_state.raised
             THEN [raised |-> TRUE, err |-> full_state.err, result |-> <<>>]
             ELSE [raised |-> FALSE, err |-> NoError,
                   result |-> <<ExperimentResult(the_job, converted, full_state)>>]

\* jobs = self.__api.get_jobs_from_project(qi_job.job_id());
\* results = [self.__api.get(job['results']) for job in jobs]
GetJobsFromProject(jobs) ==
    /\ pc = "idle"
    /\ \E project_jobs \in jobs :
        fetched' = [jobs |-> project_jobs, returned |-> FALSE, experiment_results |-> <<>>]
    /\ pc' = "fetching"
    /\ UNCHANGED <<call_fsp, n_qubits, instructions, parser, stream, mark, line, error, result,
                   mask_arg, mask_res, calls, conv, qobj, api, job>>

\* one iteration of for result, job in zip(results, jobs)
ConvertNextResult ==
    /\ pc = "fetching"
    /\ Len(fetched.experiment_results) < Len(fetched.jobs)
    /\ \E prob \in Draws :
        LET output == ConvertJob(fetched.jobs[Len(fetched.experiment_results) + 1], prob)
        IN  IF output.raised
            THEN /\ error' = output.err
                 /\ pc' = "failed"
                 /\ fetched' = fetched
            ELSE /\ fetched' = [fetched EXCEPT !.experiment_results = @ \o output.result]
                 /\ UNCHANGED <<pc, error>>
    /\ UNCHANGED <<call_fsp, n_qubits, instructions, parser, stream, mark, line, result,
                   mask_arg, mask_res, calls, conv, qobj, api, job>>

\* return experiment_results
ReturnExperimentResults ==
    /\ pc = "fetching"
    /\ Len(fetched.experiment_results) = Len(fetched.jobs)
    /\ fetched' = [fetched EXCEPT !.returned = TRUE]
    /\ pc' = "fetched"
    /\ UNCHANGED <<call_fsp, n_qubits, instructions, parser, stream, mark, line, error, result,
                   mask_arg, mask_res, calls, conv, qobj, api, job>>

(* ---- the jobs whose results are fetched ---- *)
\* the jobs of experiments with samples, of single shots with probabilities
\* that add up to 1 and to just less, of an experiment without measurements
\* on one memory slot, and jobs whose result has an empty histogram or none
ProjectJobs ==
    {ProjectJob("a", 2, collect_measurements(ResultQubits, 2, <<Measure(0, 0), Measure(1, 1)>>),
                Result(<<<<0, One - 2>>, <<3, 2>>>>), <<0, 3>>),
     ProjectJob("b", 1, collect_measurements(ResultQubits, 2, <<Measure(0, 1), Measure(1, 0)>>),
                Result(<<<<1, 1>>, <<2, One - 1>>>>), <<>>),
     ProjectJob("c", 2, collect_measurements(ResultQubits, 1, <<>>),
                Result(<<<<2, One>>>>), <<2, 2>>),
     ProjectJob("f", 1, collect_measurements(ResultQubits, 3, <<Measure(1, 2)>>),
                Result(<<<<3, One - 1>>>>), <<>>),
     ProjectJob("d", 2, collect_measurements(ResultQubits, 2, <<Measure(0, 0)>>),
                EmptyResult("oopsy"), <<>>),
     ProjectJob("e", 2, collect_measurements(ResultQubits, 2, <<Measure(0, 0)>>),
                ResultWithoutHistogram, <<>>)}

\* the projects of 0..MaxJobs jobs
JobsOfProjects == UNION {[1..len -> ProjectJobs] : len \in 0..MaxJobs}

GetJobs == GetJobsFromProject(JobsOfProjects)

FetchNext ==
    \/ GetJobs
    \/ ConvertNextResult
    \/ ReturnExperimentResults

SpecFetch == Init /\ [][FetchNext]_vars

(* ---- what the properties speak about ---- *)
\* the instruction of the last iteration
Cur == instructions[Len(instructions)]

\* the text the last iteration added to the buffer
Emitted == SubSeq(stream, mark + 1, Len(stream))

\* the last iteration ran to its end
Completed == pc \in {"loop", "done"} /\ Len(instructions) > 0

IsConditional == Len(instructions) > 0 /\ Cur.conditional # NoConditional

\* positions of the mask declarations for Cur's register that precede Cur
PriorDecls ==
    {i \in 1..(Len(instructions) - 1) :
        instructions[i].name = "bfunc" /\ instructions[i].register = Cur.conditional}

Decl == instructions[CHOOSE i \in PriorDecls : TRUE]
DeclMask == HexToInt(Decl.mask)
DeclVal == HexToInt(Decl.val)
DeclLow == get_mask_data(DeclMask)[1]
DeclHigh == get_mask_data(DeclMask)[1] + get_mask_data(DeclMask)[2] - 1

\* Cur is conditional on a usable declaration
ValidCondition ==
    /\ IsConditional
    /\ PriorDecls # {}
    /\ Decl.relation = "=="
    /\ DeclMask # 0

\* Cur is a known gate that prints at least one statement
EmitsGate ==
    \/ Lower(Cur.name) \in FixedGates \cup RotationGates
    \/ /\ Lower(Cur.name) \in GenericGates
       /\ \E k \in DOMAIN Cur.params : Format6(Cur.params[k]) # 0

StrictlyAscending(s) == \A k \in 1..(Len(s) - 1) : s[k] < s[k + 1]
Elements(s) == {s[k] : k \in DOMAIN s}

(* ---- C1 ---- *)
\* C1: get_mask_data returns (-1, 0) for mask 0 and otherwise (position of the
\* lowest set bit, position of the highest set bit - lowest + 1), so that
\* unset bits between the two are counted; with the values of test_get_mask_data.
C1_MaskData ==
    pc = "mask_done" =>
        /\ mask_arg = 0 => mask_res = <<-1, 0>>
        /\ mask_arg # 0 =>
            LET low == mask_res[1]
                high == mask_res[1] + mask_res[2] - 1
            IN  /\ low >= 0
                /\ mask_res[2] >= 1
                /\ Bit(mask_arg, low) = 1
                /\ mask_arg % Pow2(low) = 0
                /\ Pow2(high) <= mask_arg
                /\ mask_arg < Pow2(high + 1)
        /\ mask_arg = 1 => mask_res = <<0, 1>>
        /\ mask_arg = 56 => mask_res = <<3, 3>>
        /\ mask_arg = 255 => mask_res = <<0, 8>>
        /\ mask_arg = 510 => mask_res = <<1, 8>>
        /\ mask_arg = 128 => mask_res = <<7, 1>>
        /\ mask_arg = 192 => mask_res = <<6, 2>>

\* a mask with an unset bit inside its span (0b101000) has been decoded
C1_Witness == pc = "mask_done" /\ mask_arg = 40 /\ mask_res = <<3, 3>>

(* ---- C2 ---- *)
\* C2: a conditional known gate with relation '==' and a non-zero mask that
\* prints gate lines prints them without any 'not' line when every value bit
\* of the mask span is 1, and otherwise between one 'not' line directly before
\* the first and an identical 'not' line directly after the last gate line.
C2_NotWrapper ==
    (Completed /\ ValidCondition /\ EmitsGate) =>
        LET e == Emitted
            all_ones == \A i \in DeclLow..DeclHigh : Bit(DeclVal, i) = 1
        IN  IF all_ones
            THEN /\ Len(e) \in 1..3
                 /\ \A k \in DOMAIN e : IsGate(e[k])
            ELSE /\ Len(e) \in 3..5
                 /\ IsNot(e[1])
                 /\ e[Len(e)] = e[1]
                 /\ \A k \in 2..(Len(e) - 1) : IsGate(e[k])

\* a u3 with three non-zero angles was wrapped: five statements, the outer two 'not'
C2_Witness ==
    /\ Completed /\ ValidCondition /\ EmitsGate
    /\ Cur.name = "u3"
    /\ Len(Emitted) = 5
    /\ IsNot(Emitted[1]) /\ IsNot(Emitted[5])

(* ---- C3 ---- *)
\* C3: the bits of a 'not' line are exactly the indices of the mask span whose
\* bit in the condition value is 0, in ascending order; the line is there
\* whenever there is such an index and the gate prints.
C3_NegatedBits ==
    (Completed /\ ValidCondition /\ EmitsGate) =>
        LET e == Emitted
            zeroes == {i \in DeclLow..DeclHigh : Bit(DeclVal, i) = 0}
        IN  /\ \A k \in DOMAIN e :
                IsNot(e[k]) => /\ StrictlyAscending(e[k].cbits)
                               /\ Elements(e[k].cbits) = zeroes
                               /\ zeroes # {}
            /\ zeroes # {} => \E k \in DOMAIN e : IsNot(e[k])
            /\ (DeclMask = 255 /\ DeclVal = 14) => e[1] = NotStmt(<<0, 4, 5, 6, 7>>)
            /\ (DeclMask = 56 /\ DeclVal = 24) => e[1] = NotStmt(<<5>>)
            /\ (DeclMask = 254 /\ DeclVal = 54) => e[1] = NotStmt(<<3, 6, 7>>)

\* mask 0xFE, val 0x36: 'not b[3,6,7]' was printed
C3_Witness ==
    /\ Completed /\ ValidCondition /\ EmitsGate
    /\ DeclMask = 254 /\ DeclVal = 54
    /\ Emitted[1] = NotStmt(<<3, 6, 7>>)

(* ---- C4 ---- *)
\* C4: the classical operand of every printed 'C-' statement is b[low] for a
\* span of one bit and b[low:high], high = low + length - 1, for a longer one.
C4_BinaryControl ==
    (Completed /\ ValidCondition /\ EmitsGate) =>
        LET e == Emitted
            md == get_mask_data(DeclMask)
        IN  /\ \E k \in DOMAIN e : IsGate(e[k])
            /\ \A k \in DOMAIN e :
                IsGate(e[k]) =>
                    /\ e[k].cond
                    /\ md[2] = 1 => e[k].cbits = <<md[1]>>
                    /\ md[2] > 1 => e[k].cbits = <<md[1], md[1] + md[2] - 1>>
                    /\ DeclMask = 64 => e[k].cbits = <<6>>
                    /\ DeclMask = 56 => e[k].cbits = <<3, 5>>
                    /\ DeclMask = 254 => e[k].cbits = <<1, 7>>

\* both operand forms were printed: this state has the single-bit form of mask 0x40
C4_Witness ==
    /\ Completed /\ ValidCondition /\ EmitsGate
    /\ DeclMask = 64
    /\ \E k \in DOMAIN Emitted : IsGate(Emitted[k]) /\ Emitted[k].cbits = <<6>>

(* ---- C5 ---- *)
\* C5: an unconditional instruction whose gate name is not in the gate table
\* makes the translation fail with ApiError 'Gate <name> not supported', and
\* no text is returned.
C5_UnsupportedGate ==
    (Len(instructions) > 0 /\ Cur.conditional = NoConditional
        /\ Lower(Cur.name) \notin ParserAttributes) =>
        /\ pc = "failed"
        /\ error = GateNotSupported(Lower(Cur.name))
        /\ ~result.returned

(* ---- C6 ---- *)
\* C6: an instruction with an unknown gate name under a condition that has a
\* matching earlier declaration fails with ApiError 'Conditional gate c-<name>
\* not supported'.
C6_UnsupportedConditionalGate ==
    (ValidCondition /\ Lower(Cur.name) \notin ParserAttributes) =>
        /\ pc = "failed"
        /\ error = ConditionalGateNotSupported(Lower(Cur.name))

(* ---- C7 ---- *)
\* C7: a conditional instruction without an earlier mask declaration for its
\* register fails with ApiError 'Conditional not found: reg_idx = <register>'.
C7_ConditionalNotFound ==
    (IsConditional /\ PriorDecls = {}) =>
        /\ pc = "failed"
        /\ error = ConditionalNotFound(Cur.conditional)

(* ---- C8 ---- *)
\* C8: a conditional instruction whose matching declaration (relation '==')
\* has mask 0 fails with ApiError 'Conditional statement <name> without a
\* mask', whatever the value and the gate.
C8_WithoutMask ==
    (IsConditional /\ PriorDecls # {} /\ Decl.relation = "==" /\ DeclMask = 0) =>
        /\ pc = "failed"
        /\ error = WithoutMask(Lower(Cur.name))

(* ---- C9 ---- *)
\* C9: a conditional instruction whose matching declaration has a relation
\* other than '==' fails with ApiError 'Conditional statement with relation
\* <relation> not supported', whatever the mask and the value.
C9_UnsupportedRelation ==
    (IsConditional /\ PriorDecls # {} /\ Decl.relation # "==") =>
        /\ pc = "failed"
        /\ error = RelationNotSupported(Decl.relation)

(* ---- C10 ---- *)
\* C10: _generate_cqasm takes the full-state-projection flag as its second
\* argument; a measure instruction prints nothing when the flag is absent or
\* true and prints exactly 'measure q[i]' when it is false.
C10_MeasureProjection ==
    /\ call_fsp # "absent" => error.type # "TypeError"
    /\ (Completed /\ Cur.name = "measure") =>
        IF call_fsp = "false" THEN Emitted = <<MeasureStmt(Cur.qubits[1])>>
        ELSE Emitted = <<>>

(* ---- C11 ---- *)
WithoutBarriers(instrs) == SelectSeq(instrs, LAMBDA i : Lower(i.name) # "barrier")

\* C11: a barrier, conditional or not, prints nothing: its iteration adds no
\* statement to the buffer (no gate line, no 'not' line), and the text a call
\* returns is the text of the same experiment with its barriers removed.
C11_Barrier ==
    /\ (Completed /\ Lower(Cur.name) = "barrier") => (Emitted = <<>> /\ line = NoLine)
    /\ pc = "done" =>
        LET without == generate_cqasm(n_qubits, WithoutBarriers(instructions))
        IN  without.returned /\ without.text = result.text

\* a barrier under a condition whose value has zero bits in the mask span was
\* translated after its declaration, and the call returned the header alone
C11_Witness ==
    /\ pc = "done"
    /\ Len(instructions) = 2
    /\ Lower(Cur.name) = "barrier"
    /\ ValidCondition
    /\ DeclVal # DeclMask
    /\ result.text = Header(n_qubits)

(* ---- C12 ---- *)
\* C12: the text of a translation starts with exactly the three header lines,
\* the third with the qubit count of the experiment; the gate statements
\* follow in the order of the instructions; and an experiment without
\* instructions gives the header alone.
C12_Header ==
    /\ pc \in {"loop", "done"} =>
        LET body == SubSeq(stream, 4, Len(stream))
            gates == SelectSeq(body, IsGate)
            ins == SelectSeq(instructions, LAMBDA i : Lower(i.name) \in FixedGates)
        IN  /\ Len(stream) >= 3
            /\ SubSeq(stream, 1, 3) = <<VersionStmt, CommentStmt, QubitsStmt(n_qubits)>>
            /\ \A k \in DOMAIN body : IsGate(body[k]) \/ IsNot(body[k])
            /\ Len(gates) = Len(ins)
            /\ \A k \in DOMAIN gates :
                /\ gates[k].op = Mnemonic[Lower(ins[k].name)]
                /\ gates[k].qubits = ins[k].qubits
    /\ pc = "done" =>
        /\ result.returned
        /\ result.text = stream
        /\ instructions = <<>> => result.text = <<VersionStmt, CommentStmt, QubitsStmt(n_qubits)>>

\* an experiment of three qubits with two different gates was translated
C12_Witness ==
    /\ pc = "done"
    /\ n_qubits = 3
    /\ result.text = <<VersionStmt, CommentStmt, QubitsStmt(3),
                       GateStmt("CNOT", FALSE, <<>>, <<1, 0>>, <<>>),
                       GateStmt("X", FALSE, <<>>, <<0>>, <<>>)>>

(* ---- C13 ---- *)
\* the mnemonics as documented
DocumentedMnemonic(name) ==
    CASE name = "id" -> "I" [] name = "x" -> "X" [] name = "y" -> "Y" [] name = "z" -> "Z"
      [] name = "h" -> "H" [] name = "s" -> "S" [] name = "sdg" -> "Sdag"
      [] name = "t" -> "T" [] name = "tdg" -> "Tdag" [] name = "swap" -> "SWAP"
      [] name = "cx" -> "CNOT" [] name = "cz" -> "CZ" [] name = "ccx" -> "Toffoli"

\* C13: a gate of the table prints exactly one gate statement, with the
\* documented mnemonic and the qubits in the order given; without a condition
\* that statement is all it prints, and under a usable condition the
\* statement is the 'C-' form with the classical operand of the declaration.
C13_FixedGates ==
    (Completed /\ Lower(Cur.name) \in FixedGates /\ (~IsConditional \/ ValidCondition)) =>
        LET g == SelectSeq(Emitted, IsGate)
        IN  /\ Len(g) = 1
            /\ g[1].op = DocumentedMnemonic(Lower(Cur.name))
            /\ g[1].qubits = Cur.qubits
            /\ g[1].args = <<>>
            /\ IF IsConditional
               THEN /\ g[1].cond
                    /\ g[1].cbits = BinaryControl(DeclLow, DeclHigh - DeclLow + 1)
                    /\ g[1].cbits # <<>>
               ELSE /\ ~g[1].cond
                    /\ g[1].cbits = <<>>
                    /\ Emitted = g

\* a conditional ccx on the qubits 2, 0, 1 printed 'C-Toffoli b[0:3], q[2], q[0], q[1]'
C13_Witness ==
    /\ Completed /\ ValidCondition
    /\ Cur.name = "ccx" /\ Cur.qubits = <<2, 0, 1>>
    /\ \E k \in DOMAIN Emitted :
        Emitted[k] = GateStmt("Toffoli", TRUE, <<0, 3>>, <<2, 0, 1>>, <<>>)

(* ---- C14 ---- *)
\* the gate statements of the last iteration
EmittedGates == SelectSeq(Emitted, IsGate)

IsGeneric == Len(instructions) > 0 /\ Lower(Cur.name) \in GenericGates

\* the angles theta, phi, lambda of the decomposition of Cur
EulerAngles ==
    IF Lower(Cur.name) = "u1" THEN <<0, 0, Cur.params[1]>>
    ELSE IF Lower(Cur.name) = "u2" THEN <<PiHalf, Cur.params[1], Cur.params[2]>>
    ELSE <<Cur.params[1], Cur.params[2], Cur.params[3]>>

\* C14 as stated: u, u1, u2 and u3 print 0, 1 or 3 rotation statements, never 2.
C14_NeverTwo ==
    (Completed /\ IsGeneric /\ (~IsConditional \/ ValidCondition)) =>
        Len(EmittedGates) \in {0, 1, 3}

\* C14, amended: u, u1, u2 and u3 print one rotation statement for each of
\* their three decomposition angles that is not zero at six decimals, so 0,
\* 1, 2 or 3 of them; u2 prints at least one and u1 at most one.
C14_RotationCount ==
    (Completed /\ IsGeneric /\ (~IsConditional \/ ValidCondition)) =>
        /\ Len(EmittedGates) = Cardinality({k \in 1..3 : Format6(EulerAngles[k]) # 0})
        /\ Len(EmittedGates) \in 0..3
        /\ Lower(Cur.name) = "u2" => Len(EmittedGates) >= 1
        /\ Lower(Cur.name) = "u1" => Len(EmittedGates) <= 1

\* u2(0, pi/2) printed two rotations, 'Rz q[1], 1.570796' and 'Ry q[1], 1.570796'
C14_Witness ==
    /\ Completed /\ ~IsConditional
    /\ Cur.name = "u2" /\ Cur.params = <<0, PiHalf>>
    /\ Emitted = <<GateStmt("Rz", FALSE, <<>>, <<1>>, <<1570796>>),
                   GateStmt("Ry", FALSE, <<>>, <<1>>, <<1570796>>)>>

(* ---- C15 ---- *)
\* the statement 'op q, angle' when the angle is not zero at six decimals
Printed(op, angle) ==
    IF Format6(angle) = 0 THEN <<>>
    ELSE <<[op |-> op, qubits |-> Cur.qubits, args |-> <<Format6(angle)>>]>>

OpQubitsArgs(s) == [op |-> s.op, qubits |-> s.qubits, args |-> s.args]

\* C15: u and u3 (theta, phi, lambda) print 'Rz lambda', 'Ry theta', 'Rz phi'
\* in this order, each left out on its own when its angle is zero at six
\* decimals; u2(phi, lambda) prints what u3(pi/2, phi, lambda) prints; u1(lambda)
\* prints 'Rz lambda' or nothing.
C15_EulerOrder ==
    (Completed /\ IsGeneric /\ (~IsConditional \/ ValidCondition)) =>
        /\ [k \in DOMAIN EmittedGates |-> OpQubitsArgs(EmittedGates[k])]
               = Printed("Rz", EulerAngles[3]) \o Printed("Ry", EulerAngles[1])
                     \o Printed("Rz", EulerAngles[2])
        /\ \A k \in DOMAIN EmittedGates : EmittedGates[k].cond = IsConditional
        /\ ~IsConditional => Emitted = EmittedGates
        /\ Lower(Cur.name) = "u1" =>
               \/ EmittedGates = <<>>
               \/ /\ Len(EmittedGates) = 1
                  /\ EmittedGates[1].op = "Rz"
                  /\ EmittedGates[1].args = <<Format6(Cur.params[1])>>

\* u3(pi/2, -pi/2, 0.0000004) printed 'Ry q[1], 1.570796' and 'Rz q[1], -1.570796'
C15_Witness ==
    /\ Completed /\ ~IsConditional
    /\ Cur.name = "u3" /\ Cur.params = <<PiHalf, -PiHalf, SmallAngle>>
    /\ Emitted = <<GateStmt("Ry", FALSE, <<>>, <<1>>, <<1570796>>),
                   GateStmt("Rz", FALSE, <<>>, <<1>>, <<-1570796>>)>>

(* ---- C16 ---- *)
\* C16: u, u3 and u1 with all angles exactly zero print nothing, without a
\* condition and under a usable one: no gate statement and no 'not' line.
C16_ZeroAngles ==
    (Completed /\ Lower(Cur.name) \in {"u", "u3", "u1"}
        /\ (\A k \in DOMAIN Cur.params : Cur.params[k] = 0)
        /\ (~IsConditional \/ ValidCondition)) =>
        Emitted = <<>>

\* a u3(0, 0, 0) under the condition mask 0xF, value 0xE was translated
C16_Witness ==
    /\ Completed /\ ValidCondition
    /\ DeclMask = 15 /\ DeclVal = 14
    /\ Cur.name = "u3" /\ Cur.params = <<0, 0, 0>>
    /\ line = [isStr |-> TRUE, text |-> <<>>]
    /\ Emitted = <<>>

(* ---- C17 ---- *)
\* C17: the outcome of a translation, text or error, is a function of the
\* instruction sequence and the qubit count alone: it is what a backend that
\* never translated anything gives, whatever this backend translated before,
\* and two calls with the same experiment have the same outcome.
C17_Deterministic ==
    /\ \A i \in DOMAIN calls :
        LET alone == generate_cqasm(calls[i].number_of_qubits, calls[i].instructions)
        IN  /\ calls[i].returned = alone.returned
            /\ calls[i].text = alone.text
            /\ calls[i].error = alone.err
    /\ \A i, j \in DOMAIN calls :
        (/\ calls[i].number_of_qubits = calls[j].number_of_qubits
         /\ calls[i].instructions = calls[j].instructions) =>
            /\ calls[i].returned = calls[j].returned
            /\ calls[i].text = calls[j].text
            /\ calls[i].error = calls[j].error
    /\ pc = "done" =>
        /\ generate_cqasm(n_qubits, instructions).returned
        /\ generate_cqasm(n_qubits, instructions).text = result.text
    /\ pc = "failed" =>
        /\ ~generate_cqasm(n_qubits, instructions).returned
        /\ generate_cqasm(n_qubits, instructions).err = error

\* after a call that declared register 1, a call with a gate under register 1
\* and no declaration of its own failed as on a new backend
C17_Witness ==
    /\ Len(calls) = 2
    /\ calls[1].returned
    /\ \E k \in DOMAIN calls[1].instructions : calls[1].instructions[k].name = "bfunc"
    /\ calls[2].instructions = <<Instr("h", <<0>>, <<>>, 1)>>
    /\ ~calls[2].returned
    /\ calls[2].error = ConditionalNotFound(1)

(* ---- C18 ---- *)
\* the classical bits the pairs leave: position c takes the bit of the qubit
\* of the last pair that names c, and 0 when no pair does
ProjectedBit(qubit_register, c) ==
    LET naming == {k \in DOMAIN conv.measurements : conv.measurements[k][2] = c}
        last == CHOOSE k \in naming : \A j \in naming : j <= k
    IN  IF naming = {} THEN 0
        ELSE Bit(qubit_register, conv.number_of_qubits - 1 - conv.measurements[last][1])

RECURSIVE ProjectedFrom(_, _)
ProjectedFrom(qubit_register, c) ==
    IF c >= conv.number_of_clbits THEN 0
    ELSE ProjectedBit(qubit_register, c) * Pow2(conv.number_of_clbits - 1 - c)
            + ProjectedFrom(qubit_register, c + 1)

\* the number of the classical state that a qubit register projects onto
Projected(qubit_register) == ProjectedFrom(qubit_register, 0)

RECURSIVE SumOfValues(_)
SumOfValues(items) == IF items = <<>> THEN 0 ELSE Head(items)[2] + SumOfValues(Tail(items))

ConvertedHistogram == pc = "converted" /\ conv.op = "convert_histogram"

\* C18: in the histogram that __convert_histogram returns, the value of every
\* key is the sum of the probabilities of the states that project onto that
\* key, every key has such a state, and the values add up to what the
\* probabilities of the result add up to.
C18_Aggregates ==
    ConvertedHistogram =>
        /\ \A k \in DOMAIN conv.out_histogram :
            LET onto == SelectSeq(conv.histogram,
                                  LAMBDA item : Projected(item[1]) = HexKey(conv.out_histogram[k][1]))
            IN  /\ onto # <<>>
                /\ conv.out_histogram[k][2] = SumOfValues(onto)
                /\ conv.out_histogram[k][1] = Hex(Projected(onto[1][1]))
        /\ \A i \in DOMAIN conv.histogram :
            \E k \in DOMAIN conv.out_histogram :
                HexKey(conv.out_histogram[k][1]) = Projected(conv.histogram[i][1])
        /\ SumOfValues(conv.out_histogram) = SumOfValues(conv.histogram)

\* the states 1 and 3, of which only the lower qubit is measured, were added up under 0x1
C18_Witness ==
    /\ ConvertedHistogram
    /\ conv.measurements = <<<<1, 0>>>> /\ conv.number_of_clbits = 1
    /\ conv.histogram = <<<<3, 1>>, <<1, 3>>>>
    /\ conv.out_histogram = <<<<Hex(1), 4>>>>

(* ---- C19 ---- *)
\* C19: the histogram of probabilities that __convert_histogram returns and
\* the histogram of counts that __convert_result_data returns are strictly
\* ascending by the number their hex key stands for, so that no key is twice
\* in them.
C19_Ascending ==
    pc = "converted" =>
        /\ \A k \in 1..(Len(conv.out_histogram) - 1) :
            HexKey(conv.out_histogram[k][1]) < HexKey(conv.out_histogram[k + 1][1])
        /\ \A i, j \in DOMAIN conv.out_histogram :
            i # j => conv.out_histogram[i][1] # conv.out_histogram[j][1]

\* the samples 1 and 2, in this order, of an experiment that measures qubit 0
\* into bit 4 and qubit 1 into bit 1: the counts have 0x2 before 0x10
C19_Witness ==
    /\ pc = "converted" /\ conv.op = "convert_result_data"
    /\ conv.number_of_clbits = 5
    /\ conv.raw_data = <<1, 2>>
    /\ conv.memory_data = <<<<1, 0>>, <<2>>>>
    /\ conv.out_histogram = <<<<<<2>>, 1>>, <<<<1, 0>>, 1>>>>

(* ---- C20 ---- *)
ConvertedSamples ==
    pc = "converted" /\ conv.op = "convert_result_data" /\ conv.raw_data # <<>>

\* C20: with samples, the memory has one entry for every sample, in the
\* order of the samples, each the hex key of the classical state its sample
\* projects onto; and the counts say for every key of the memory, and for no
\* other, how often it is in the memory, so that they add up to the number of
\* samples.
C20_MemoryAndCounts ==
    ConvertedSamples =>
        /\ Len(conv.memory_data) = Len(conv.raw_data)
        /\ \A k \in DOMAIN conv.raw_data :
            conv.memory_data[k] = Hex(Projected(conv.raw_data[k]))
        /\ \A k \in DOMAIN conv.out_histogram :
            conv.out_histogram[k][2] =
                Cardinality({j \in DOMAIN conv.memory_data :
                                conv.memory_data[j] = conv.out_histogram[k][1]})
        /\ \A k \in DOMAIN conv.out_histogram : conv.out_histogram[k][2] >= 1
        /\ \A j \in DOMAIN conv.memory_data :
            \E k \in DOMAIN conv.out_histogram : conv.out_histogram[k][1] = conv.memory_data[j]
        /\ SumOfValues(conv.out_histogram) = Len(conv.raw_data)

\* the samples 3 and 1 of an experiment that measures the lower qubit alone:
\* the memory is 0x1, 0x1 and the count of 0x1 is 2
C20_Witness ==
    /\ ConvertedSamples
    /\ conv.measurements = <<<<1, 0>>>> /\ conv.number_of_clbits = 1
    /\ conv.raw_data = <<3, 1>>
    /\ conv.memory_data = <<<<1>>, <<1>>>>
    /\ conv.out_histogram = <<<<<<1>>, 2>>>>

(* ---- C21 ---- *)
\* the single shot: __convert_result_data returned and there were no samples
ConvertedSingleShot ==
    pc = "converted" /\ conv.op = "convert_result_data" /\ conv.raw_data = <<>>

\* the probabilities of the first k entries of the histogram of the result, added up
SumThrough(k) == SumOfValues(SubSeq(conv.histogram, 1, k))

\* the entries whose cumulated probability exceeds the draw
Exceeding == {k \in DOMAIN conv.histogram : conv.prob < SumThrough(k)}

\* C21: without samples, __convert_result_data returns a memory of exactly one
\* entry and counts of exactly one key with count 1, for every draw and every
\* histogram that is not empty; the entry is the projection of the first
\* entry of the histogram whose cumulated probability exceeds the draw.
C21_OneSample ==
    ConvertedSingleShot =>
        /\ Len(conv.memory_data) = 1
        /\ conv.out_histogram = <<<<conv.memory_data[1], 1>>>>
        /\ Exceeding # {}
        /\ LET first == CHOOSE k \in Exceeding : \A j \in Exceeding : k <= j
           IN  conv.memory_data[1] = Hex(Projected(conv.histogram[first][1]))

(* ---- C22 ---- *)
\* C22: the sample of the single shot is, for every draw and every
\* measurement map, the key that a state of the histogram of the result
\* projects onto.
C22_KeyOfHistogram ==
    ConvertedSingleShot =>
        \E k \in DOMAIN conv.histogram :
            conv.memory_data = <<Hex(Projected(conv.histogram[k][1]))>>

(* ---- C23 ---- *)
\* the first job whose result has no histogram data, 0 when all have
FirstWithoutHistogram ==
    LET without == {k \in DOMAIN fetched.jobs :
                       ~fetched.jobs[k].result.has_histogram
                           \/ fetched.jobs[k].result.histogram = <<>>}
    IN  IF without = {} THEN 0 ELSE CHOOSE k \in without : \A j \in without : k <= j

\* get_experiment_results has returned or raised
FetchEnded == pc \in {"fetched", "failed"} /\ fetched # NoFetch

\* C23: when the result of some job has an empty histogram or none,
\* get_experiment_results raises the QisKitBackendError 'Result from backend
\* contains no histogram data!' followed by the raw_text of that result and
\* returns nothing; otherwise it returns one experiment result for each job,
\* in the order of the jobs.
C23_ResultPerJob ==
    FetchEnded =>
        IF FirstWithoutHistogram # 0
        THEN /\ pc = "failed"
             /\ ~fetched.returned
             /\ error = QisKitBackendError(
                    <<"Result from backend contains no histogram data!\n",
                      IF fetched.jobs[FirstWithoutHistogram].result.has_raw_text
                      THEN fetched.jobs[FirstWithoutHistogram].result.raw_text
                      ELSE "None">>, -1)
        ELSE /\ pc = "fetched"
             /\ fetched.returned
             /\ Len(fetched.experiment_results) = Len(fetched.jobs)
             /\ \A i \in DOMAIN fetched.jobs :
                    /\ fetched.experiment_results[i].name = fetched.jobs[i].name
                    /\ fetched.experiment_results[i].shots = fetched.jobs[i].number_of_shots

(* ---- C25 ---- *)
\* C25: an rx, ry or rz instruction prints exactly one gate statement, Rx, Ry
\* or Rz on its qubit with its angle at six decimals, whatever the angle: an
\* angle of zero, or one that rounds to zero, is printed as 0.000000.
C25_ExplicitRotation ==
    (Completed /\ Lower(Cur.name) \in RotationGates /\ (~IsConditional \/ ValidCondition)) =>
        /\ Len(EmittedGates) = 1
        /\ EmittedGates[1].op =
               (CASE Lower(Cur.name) = "rx" -> "Rx"
                  [] Lower(Cur.name) = "ry" -> "Ry"
                  [] Lower(Cur.name) = "rz" -> "Rz")
        /\ EmittedGates[1].qubits = Cur.qubits
        /\ EmittedGates[1].args = <<Format6(Cur.params[1])>>
        /\ Cur.params[1] \in {0, SmallAngle} => EmittedGates[1].args = <<0>>
        /\ EmittedGates[1].cond = IsConditional
        /\ ~IsConditional => Emitted = EmittedGates

\* rx with angle 0 on qubit 1 printed 'Rx q[1], 0.000000'
C25_Witness ==
    /\ Completed /\ ~IsConditional
    /\ Cur.name = "rx" /\ Cur.params = <<0>>
    /\ Emitted = <<GateStmt("Rx", FALSE, <<>>, <<1>>, <<0>>)>>

(* ---- C27 ---- *)
\* a gate or barrier of the experiment acts on a qubit that an earlier
\* measure instruction of the experiment measured
OperatesOnMeasured(experiment) ==
    \E i, j \in DOMAIN experiment.instructions :
        /\ i < j
        /\ experiment.instructions[i].name = "measure"
        /\ experiment.instructions[j].name # "measure"
        /\ \E a \in DOMAIN experiment.instructions[i].qubits,
              b \in DOMAIN experiment.instructions[j].qubits :
               experiment.instructions[i].qubits[a] = experiment.instructions[j].qubits[b]

ValidationDone == pc \in {"validated", "failed"} /\ qobj # NoQobj

\* C27: __validate_no_gates_after_measure raises 'Operation after
\* measurement!' for an experiment exactly when an instruction that is not a
\* measure acts on a qubit that an earlier measure of the same experiment
\* measured: a job whose shots and memory slots are valid is rejected with
\* that error if it has such an experiment and is accepted if it has none,
\* whatever its experiments measure twice and whatever earlier experiments measured.
C27_NoGatesAfterMeasure ==
    ValidationDone =>
        /\ \A k \in DOMAIN qobj.experiments :
            (validate_no_gates_after_measure(qobj.experiments[k]) = OperationAfterMeasurement)
                <=> OperatesOnMeasured(qobj.experiments[k])
        /\ (/\ qobj.shots >= 1
            /\ \A k \in DOMAIN qobj.experiments : qobj.experiments[k].memory_slots >= 1) =>
               IF \E k \in DOMAIN qobj.experiments : OperatesOnMeasured(qobj.experiments[k])
               THEN pc = "failed" /\ error = OperationAfterMeasurement
               ELSE pc = "validated" /\ error = NoError

\* a job was accepted whose first experiment measures qubit 0 and whose
\* second applies a gate to qubit 0 and then measures it
C27_Witness ==
    /\ pc = "validated"
    /\ Len(qobj.experiments) = 2
    /\ qobj.experiments[1].instructions = <<Measure(0, 0)>>
    /\ qobj.experiments[2].instructions =
           <<Instr("h", <<0>>, <<>>, NoConditional), Measure(0, 0)>>

(* ---- C24 ---- *)
\* the measure instructions of an experiment, in instruction order
MeasuresOf(experiment) == SelectSeq(experiment.instructions, LAMBDA m : m.name = "measure")

\* C24: the measurement map that is submitted with an experiment has, when
\* the experiment has measure instructions, exactly one pair for each in
\* instruction order, [n_qubits - 1 - qubit, n_clbits - 1 - clbit], and is
\* [i, i] for i = 0..n_qubits - 1 when it has none.
C24_MeasurementMap ==
    \A i \in DOMAIN api.executed :
        LET experiment == qobj.experiments[i]
            measures == MeasuresOf(experiment)
            map == api.executed[i].measurements
        IN  /\ map.number_of_clbits = experiment.memory_slots
            /\ measures # <<>> =>
                /\ Len(map.measurements) = Len(measures)
                /\ \A k \in DOMAIN measures :
                    map.measurements[k] =
                        <<experiment.n_qubits - 1 - measures[k].qubits[1],
                          experiment.memory_slots - 1 - measures[k].memory[1]>>
            /\ measures = <<>> =>
                /\ Len(map.measurements) = experiment.n_qubits
                /\ \A k \in 1..experiment.n_qubits : map.measurements[k] = <<k - 1, k - 1>>

\* an experiment that measures qubit 0 into bit 1 and qubit 1 into bit 0 was
\* submitted with the map [1, 0], [0, 1], after one without measurements
\* that was submitted with the identity
C24_Witness ==
    /\ Len(api.executed) = 2
    /\ MeasuresOf(qobj.experiments[1]) = <<>>
    /\ api.executed[1].measurements.measurements = <<<<0, 0>>, <<1, 1>>>>
    /\ qobj.experiments[2].instructions = <<Measure(0, 1), Measure(1, 0)>>
    /\ api.executed[2].measurements.measurements = <<<<1, 0>>, <<0, 1>>>>

(* ---- C26 ---- *)
\* the job has shots below 1, an experiment without memory slots or an
\* experiment with an operation on a measured qubit
InvalidJob ==
    \/ qobj.shots < 1
    \/ \E k \in DOMAIN qobj.experiments :
        \/ qobj.experiments[k].memory_slots < 1
        \/ OperatesOnMeasured(qobj.experiments[k])

\* C26: run on a job with shots below 1, with an experiment without memory
\* slots or with an operation on a measured qubit raises QisKitBackendError,
\* and the API has neither created a project nor executed an experiment,
\* those before the invalid experiment included.
C26_ValidatesFirst ==
    (qobj # NoQobj /\ InvalidJob) =>
        /\ pc = "failed"
        /\ error.type = "QisKitBackendError"
        /\ api.projects = <<>>
        /\ api.executed = <<>>
        /\ job = NoJob

\* a job with valid shots whose second experiment operates on a measured
\* qubit was rejected, and its valid first experiment was not submitted
C26_Witness ==
    /\ pc = "failed"
    /\ error = OperationAfterMeasurement
    /\ qobj.shots = 2
    /\ Len(qobj.experiments) = 2
    /\ qobj.experiments[1] = Experiment(2, 2, <<Measure(0, 1), Measure(1, 0)>>)
    /\ api = NoApiCalls

(* ---- C28 ---- *)
\* the first experiment of the job that cannot be translated, 0 when all can
FirstUntranslatable ==
    LET failing == {k \in DOMAIN qobj.experiments :
                       ~generate_cqasm(qobj.experiments[k].n_qubits,
                                       qobj.experiments[k].instructions).returned}
    IN  IF failing = {} THEN 0 ELSE CHOOSE k \in failing : \A j \in failing : k <= j

\* C28: run creates at most one project, with the shots of the job, and
\* executes experiments only when it exists; the i-th execution is that of
\* the i-th experiment of the job, in that project and with the shots of the
\* job; a run that returns has executed every experiment once and returns
\* the id of the project; and a run that fails at the translation of
\* experiment k has executed the experiments before k.
C28_SubmitsInOrder ==
    /\ Len(api.projects) <= 1
    /\ \A p \in DOMAIN api.projects : api.projects[p].number_of_shots = qobj.shots
    /\ api.executed # <<>> => Len(api.projects) = 1
    /\ Len(api.executed) <= Len(qobj.experiments)
    /\ \A i \in DOMAIN api.executed :
        /\ api.executed[i].project = api.projects[1].id
        /\ api.executed[i].number_of_shots = qobj.shots
        /\ api.executed[i].qasm =
               generate_cqasm(qobj.experiments[i].n_qubits, qobj.experiments[i].instructions).text
        /\ generate_cqasm(qobj.experiments[i].n_qubits, qobj.experiments[i].instructions).returned
    /\ pc = "run_done" =>
        /\ Len(api.projects) = 1
        /\ Len(api.executed) = Len(qobj.experiments)
        /\ job.job_id = api.projects[1].id
    /\ pc # "run_done" => job = NoJob
    /\ (pc = "failed" /\ error.type \in {"AttributeError", "ApiError"}) =>
        /\ FirstUntranslatable # 0
        /\ Len(api.executed) = FirstUntranslatable - 1
    /\ (pc = "failed" /\ error = ErrorMessage /\ api.projects # <<>>) =>
        Len(api.executed) < Len(qobj.experiments)

\* a run of two experiments with 2 shots returned the id of its project
C28_Witness ==
    /\ pc = "run_done"
    /\ qobj.shots = 2
    /\ Len(qobj.experiments) = 2
    /\ qobj.experiments[1] # qobj.experiments[2]
    /\ api.projects = <<[id |-> 8, number_of_shots |-> 2]>>
    /\ Len(api.executed) = 2
    /\ api.executed[1].qasm # api.executed[2].qasm
    /\ job.job_id = 8

(* ---- C29 ---- *)
\* C29: every pair [q, c] of the measurement map of an experiment that
\* passed validation has 0 <= q < n_qubits and 0 <= c < n_clbits, the pairs
\* of the identity map of an experiment without measure instructions included.
C29_IndicesInRange ==
    \A i \in DOMAIN api.executed :
        LET map == api.executed[i].measurements
        IN  \A k \in DOMAIN map.measurements :
                /\ 0 <= map.measurements[k][1]
                /\ map.measurements[k][1] < qobj.experiments[i].n_qubits
                /\ 0 <= map.measurements[k][2]
                /\ map.measurements[k][2] < map.number_of_clbits

(* ---- C30 ---- *)
\* the loop of the single shot ran, whether or not the projection behind it raised
DrewSingleShot ==
    pc \in {"converted", "failed"} /\ conv.op = "convert_result_data" /\ conv.raw_data = <<>>

\* C30: the single shot selects entry k of the histogram exactly when the
\* draw is at least the probabilities before k added up and less than the
\* probabilities through k added up; so the selected entry has a probability
\* above zero, and the sample returned is its projection.
C30_HalfOpenInterval ==
    DrewSingleShot =>
        /\ \A k \in DOMAIN conv.histogram :
            (conv.drawn = conv.histogram[k][1])
                <=> (SumThrough(k - 1) <= conv.prob /\ conv.prob < SumThrough(k))
        /\ \A k \in DOMAIN conv.histogram :
            conv.drawn = conv.histogram[k][1] => conv.histogram[k][2] > 0
        /\ (conv.drawn # -1) => \E k \in DOMAIN conv.histogram : conv.drawn = conv.histogram[k][1]
        /\ (pc = "converted" /\ conv.drawn # -1) =>
               conv.memory_data = <<Hex(Projected(conv.drawn))>>

\* the draw 0 on a histogram whose first state has probability 0: the second was selected
C30_Witness ==
    /\ DrewSingleShot /\ pc = "converted"
    /\ conv.histogram = <<<<0, 0>>, <<3, One>>>>
    /\ conv.prob = 0
    /\ conv.drawn = 3
    /\ conv.measurements = <<<<0, 0>>, <<1, 1>>>> /\ conv.number_of_clbits = 2
    /\ conv.memory_data = <<<<3>>>>

====
